---- MODULE Spec2Model ----
(***************************************************************************)
(* Model of the navigation-mesh debug drawing code:                        *)
(*   debug_draw.rs   du_debug_draw_poly_mesh        (SpecPoly)             *)
(*   debug_draw2.rs  du_debug_draw_tri_mesh_slope   (SpecSlope)            *)
(*   obj_loader.rs   load_obj, ObjData::triangulate (SpecObj)              *)
(*   viewer.rs       EguiDebugDraw                  (SpecSink)             *)
(*                                                                         *)
(* Conventions.  Rust indices are 0-based and are kept 0-based in the      *)
(* model; At(s, i) reads element i of a Rust slice.  f32 quantities are    *)
(* exact rationals over a stated denominator, chosen so that every input   *)
(* of the model is exactly representable in f32.                           *)
(***************************************************************************)
EXTENDS Integers, Sequences, FiniteSets, TLC

VARIABLES
    \* ---- du_debug_draw_poly_mesh ----
    pmesh,      \* the &PolyMesh argument: [nverts, polys, areas, nvp]
    areaCol,    \* the sink's area_to_col lookup, a function of the area byte
    ppc,        \* position in du_debug_draw_poly_mesh
    pi,         \* outer loop index i (polygon, or vertex in the points pass)
    pj,         \* inner loop index j
    pcolor,     \* the local `color` of the fill pass
    pcalls,     \* calls received by the sink, in order
    plookups    \* area bytes passed to dd.area_to_col, in order

VARIABLES
    \* ---- du_debug_draw_tri_mesh_slope ----
    smesh,      \* the &InputMesh argument: [verts, tris, normals]
    sangle,     \* walkable_slope_angle, degrees
    sscale,     \* tex_scale
    spc,        \* position in du_debug_draw_tri_mesh_slope
    si,         \* loop index i (steps by 3)
    scalls      \* calls received by the sink, in order

VARIABLES
    \* ---- obj_loader.rs ----
    ofile,      \* the file at `path`: its lines, each a sequence of tokens
    lineno,     \* lines of the file consumed by load_obj so far
    vertices,   \* load_obj's `vertices`, then ObjData.vertices
    faces,      \* load_obj's `faces`, then ObjData.faces
    lres,       \* "reading", then the Result: "ok", "err_io" or "err_parse"
    triangles,  \* the value returned by ObjData::triangulate, once called
    imesh       \* the outcome of viewer.rs obj_to_input_mesh, once called:
                \* [status, verts, tris, normals]

VARIABLES
    \* ---- viewer.rs: EguiDebugDraw ----
    dd,         \* the sink: [lines, points, tris, current_mode, texture_enabled,
                \* vertex_count]
    dstatus,    \* "ready", or "panic" once a call on the sink has panicked
    batch,      \* the batch last begun: [state, prim, n, tris0], n the vertices
                \* received in it and tris0 the triangles stored before it
    nvert       \* vertex calls made on the sink so far

pvars == <<pmesh, areaCol, ppc, pi, pj, pcolor, pcalls, plookups>>
svars == <<smesh, sangle, sscale, spc, si, scalls>>

ovars == <<ofile, lineno, vertices, faces, lres, triangles, imesh>>

dvars == <<dd, dstatus, batch, nvert>>

vars == <<pvars, svars, ovars, dvars>>

----------------------------------------------------------------------------
(* A specification runs one component; the others stay idle. *)

PolyIdle ==
    /\ pmesh = [nverts |-> 0, polys |-> <<>>, areas |-> <<>>, nvp |-> 0]
    /\ areaCol = <<>>
    /\ ppc = "idle"
    /\ pi = 0
    /\ pj = 0
    /\ pcolor = <<>>
    /\ pcalls = <<>>
    /\ plookups = <<>>

\* obj_to_input_mesh has not been called
NoMesh == [status |-> "none", verts |-> <<>>, tris |-> <<>>, normals |-> <<>>]

ObjIdle ==
    /\ ofile = <<>>
    /\ lineno = 0
    /\ vertices = <<>>
    /\ faces = <<>>
    /\ lres = "idle"
    /\ triangles = <<"none">>
    /\ imesh = NoMesh

NoBatch == [state |-> "none", prim |-> 0, n |-> 0, tris0 |-> 0]

SinkIdle ==
    /\ dd = [lines |-> <<>>, points |-> <<>>, tris |-> <<>>, current_mode |-> 0,
             texture_enabled |-> FALSE, vertex_count |-> 0]
    /\ dstatus = "idle"
    /\ batch = NoBatch
    /\ nvert = 0

SlopeIdle ==
    /\ smesh = [verts |-> <<>>, tris |-> <<>>, normals |-> <<>>]
    /\ sangle = 0
    /\ sscale = 0
    /\ spc = "idle"
    /\ si = 0
    /\ scalls = <<>>

----------------------------------------------------------------------------
(* Helpers *)

At(s, i) == s[i + 1]

RECURSIVE Flatten(_)
Flatten(ss) == IF ss = <<>> THEN <<>> ELSE Head(ss) \o Flatten(Tail(ss))

RECURSIVE SeqsUpTo(_, _)
\* all sequences over S of length 0..n
SeqsUpTo(S, n) ==
    IF n = 0 THEN {<<>>}
    ELSE LET shorter == SeqsUpTo(S, n - 1)
         IN  shorter \cup {Append(s, x) : s \in {t \in shorter : Len(t) = n - 1}, x \in S}

----------------------------------------------------------------------------
(* debug_draw.rs: constants *)

DU_DRAW_QUADS == 1
DU_DRAW_LINES == 2
DU_DRAW_POINTS == 3
RC_NULL_AREA == 0
RC_WALKABLE_AREA == 63
RC_MESH_NULL_IDX == 65535

\* Colours are Vec4 <<r, g, b, a>> with every channel a numerator over ColDen.
\* 260100 = 4 * 255 * 255 represents 0.25, 0.5, 0.75, 0.86, a/255 and the
\* 64/255 blend of such values exactly.
ColDen == 260100

COL_WALKABLE == <<0, 195075, 260100, 65025>>      \* Vec4(0.0, 0.75, 1.0, 0.25)
COL_NULL     == <<0, 0, 0, 65025>>                \* Vec4(0.0, 0.0, 0.0, 0.25)
COL_BOUNDARY == <<0, 65025, 65025, 223686>>       \* Vec4(0.0, 0.25, 0.25, 0.86)
COL_VERTEX   == <<0, 0, 0, 223686>>               \* Vec4(0.0, 0.0, 0.0, 0.86)

----------------------------------------------------------------------------
(* Bounds of the polygon-mesh inputs *)

MaxNvp == 4        \* largest nvp, and longest stored polygon row
MaxPolys == 2      \* most polygons in a mesh
MaxIdx == 5        \* most stored indices in a mesh, all rows together
MaxPVerts == 2     \* most vertices in a polygon mesh

\* Index values a row may hold: 0 and 1 (in range or not, by the vertex
\* count) and the sentinel.
PolyIdx == {0, 1, RC_MESH_NULL_IDX}

\* Area bytes: null, walkable and one custom area.
AreaBytes == {RC_NULL_AREA, RC_WALKABLE_AREA, 7}

COL_CUSTOM == <<260100, 0, 0, 130050>>
AreaColours == {COL_CUSTOM, COL_WALKABLE}

\* Grid-local vertex positions <<x, y, z>> of the mesh (the first nverts are
\* used); cs, ch and bmin in tenths of a world unit.
PVertPool == << <<0, 0, 0>>, <<2, 1, 3>>, <<5, 2, 1>> >>
MeshCs == 3
MeshCh == 2
MeshBmin == <<10, 20, 30>>

RECURSIVE SumLen(_)
SumLen(rows) == IF rows = <<>> THEN 0 ELSE Len(Head(rows)) + SumLen(Tail(rows))

\* The meshes with nvp = n: 1..MaxPolys rows of at most n stored indices each,
\* one area byte per polygon.
PolyMeshes(n) ==
    { [nverts |-> nv, polys |-> ps, areas |-> as, nvp |-> n] :
        nv \in 1..MaxPVerts,
        ps \in {q \in SeqsUpTo(SeqsUpTo(PolyIdx, n), MaxPolys) :
                    /\ Len(q) >= 1
                    /\ SumLen(q) <= MaxIdx},
        as \in SeqsUpTo(AreaBytes, MaxPolys) }

----------------------------------------------------------------------------
(* debug_draw.rs: du_debug_draw_poly_mesh *)

\* A call on the sink.  src is bookkeeping that names the loop iteration the
\* call was made from (pass, polygon, j) and the vertex index drawn; the sink
\* itself receives only op, prim, size, pos and color.
CallBegin(prim, size) ==
    [op |-> "begin", prim |-> prim, size |-> size, pos |-> <<>>, color |-> <<>>,
     src |-> <<>>]
CallEnd ==
    [op |-> "end", prim |-> 0, size |-> 0, pos |-> <<>>, color |-> <<>>, src |-> <<>>]
CallVertex(pos, color, src) ==
    [op |-> "vertex", prim |-> 0, size |-> 0, pos |-> pos, color |-> color,
     src |-> src]

\* mesh.verts.len() as u16
VertsLenU16(mesh) == mesh.nverts % 65536

\* world position of a fill-pass vertex (tenths)
FillPos(v) ==
    << MeshBmin[1] + v[1] * MeshCs,
       MeshBmin[2] + (v[2] + 1) * MeshCh,
       MeshBmin[3] + v[3] * MeshCs >>

\* world position of a boundary-pass or points-pass vertex: + 0.1
LiftPos(v) ==
    << MeshBmin[1] + v[1] * MeshCs,
       MeshBmin[2] + (v[2] + 1) * MeshCh + 1,
       MeshBmin[3] + v[3] * MeshCs >>

\* `if area == RC_WALKABLE_AREA {..} else if area == RC_NULL_AREA {..} else
\* { dd.area_to_col(area) }`: TRUE when the lookup is consulted
UsesLookup(area) == area # RC_WALKABLE_AREA /\ area # RC_NULL_AREA

PolyColor_nullForWalkable(area) ==
    IF area = RC_NULL_AREA \/ area = RC_WALKABLE_AREA THEN COL_NULL
    ELSE areaCol[area]

PolyColor(area) ==
    IF area = RC_WALKABLE_AREA THEN COL_WALKABLE
    ELSE IF area = RC_NULL_AREA THEN COL_NULL
    ELSE areaCol[area]

RECURSIVE EmitVerts(_, _, _, _, _, _)
\* the `for k in 0..n` loop over vi: skip an index >= verts.len() as u16
EmitVerts(calls, mesh, vi, color, lifted, src) ==
    IF vi = <<>> THEN calls
    ELSE LET v == Head(vi)
             next ==
                IF v >= VertsLenU16(mesh) THEN calls
                ELSE Append(calls,
                        CallVertex(IF lifted THEN LiftPos(At(PVertPool, v))
                                   ELSE FillPos(At(PVertPool, v)),
                                   color, Append(src, v)))
         IN  EmitVerts(next, mesh, Tail(vi), color, lifted, src)

PolyInit ==
    /\ SlopeIdle
    /\ ObjIdle
    /\ SinkIdle
    /\ \E n \in 0..MaxNvp :
          pmesh \in {m \in PolyMeshes(n) : Len(m.areas) = Len(m.polys)}
    /\ areaCol \in [AreaBytes \ {RC_NULL_AREA, RC_WALKABLE_AREA} -> AreaColours]
    /\ ppc = "start"
    /\ pi = 0
    /\ pj = 0
    /\ pcolor = <<>>
    /\ pcalls = <<>>
    /\ plookups = <<>>

\* dd.begin(DU_DRAW_QUADS, 1.0)
PolyBegin ==
    /\ ppc = "start"
    /\ pcalls' = Append(pcalls, CallBegin(DU_DRAW_QUADS, 10))
    /\ ppc' = "fill"
    /\ pi' = 0
    /\ UNCHANGED <<pmesh, areaCol, pj, pcolor, plookups>>

\* head of the fill pass's polygon loop: area, color
FillPoly ==
    /\ ppc = "fill"
    /\ pi < Len(pmesh.polys)
    /\ LET area == At(pmesh.areas, pi)
       IN  /\ pcolor' = PolyColor(area)
           /\ plookups' = IF UsesLookup(area) THEN Append(plookups, area)
                          ELSE plookups
    /\ pj' = 2
    /\ ppc' = "fill_j"
    /\ UNCHANGED <<pmesh, areaCol, pi, pcalls>>

\* one iteration of `for j in 2..mesh.nvp`
FillIter ==
    /\ ppc = "fill_j"
    /\ LET poly == At(pmesh.polys, pi)
       IN  IF pj >= pmesh.nvp \/ pj >= Len(poly) \/ At(poly, pj) = RC_MESH_NULL_IDX
           THEN /\ ppc' = "fill"
                /\ pi' = pi + 1
                /\ UNCHANGED <<pj, pcalls>>
           ELSE /\ pcalls' = EmitVerts(pcalls, pmesh,
                                <<At(poly, 0), At(poly, pj - 1), At(poly, pj)>>,
                                pcolor, FALSE, <<"fill", pi, pj>>)
                /\ pj' = pj + 1
                /\ UNCHANGED <<ppc, pi>>
    /\ UNCHANGED <<pmesh, areaCol, pcolor, plookups>>

\* dd.end(); dd.begin(DU_DRAW_LINES, 2.5)
FillEnd ==
    /\ ppc = "fill"
    /\ pi >= Len(pmesh.polys)
    /\ pcalls' = Append(Append(pcalls, CallEnd), CallBegin(DU_DRAW_LINES, 25))
    /\ ppc' = "bnd"
    /\ pi' = 0
    /\ UNCHANGED <<pmesh, areaCol, pj, pcolor, plookups>>

\* head of the boundary pass's polygon loop
BndPoly ==
    /\ ppc = "bnd"
    /\ pi < Len(pmesh.polys)
    /\ pj' = 0
    /\ ppc' = "bnd_j"
    /\ UNCHANGED <<pmesh, areaCol, pi, pcolor, pcalls, plookups>>

\* one iteration of `for j in 0..mesh.nvp`; poly[(j + 1) as usize] is read
\* whenever j + 1 < nvp, and panics when the row stores no slot j + 1
BndIter ==
    /\ ppc = "bnd_j"
    /\ LET poly == At(pmesh.polys, pi)
       IN  IF pj >= pmesh.nvp \/ pj >= Len(poly) \/ At(poly, pj) = RC_MESH_NULL_IDX
           THEN /\ ppc' = "bnd"
                /\ pi' = pi + 1
                /\ UNCHANGED <<pj, pcalls>>
           ELSE IF pj + 1 < pmesh.nvp /\ pj + 1 >= Len(poly)
           THEN /\ ppc' = "panic"
                /\ UNCHANGED <<pi, pj, pcalls>>
           ELSE LET nj == IF pj + 1 >= pmesh.nvp \/ At(poly, pj + 1) = RC_MESH_NULL_IDX
                          THEN 0 ELSE pj + 1
                IN  /\ pcalls' = EmitVerts(pcalls, pmesh, <<At(poly, pj), At(poly, nj)>>,
                                           COL_BOUNDARY, TRUE, <<"bnd", pi, pj>>)
                    /\ pj' = pj + 1
                    /\ UNCHANGED <<ppc, pi>>
    /\ UNCHANGED <<pmesh, areaCol, pcolor, plookups>>

\* dd.end(); dd.begin(DU_DRAW_POINTS, 3.0)
BndEnd ==
    /\ ppc = "bnd"
    /\ pi >= Len(pmesh.polys)
    /\ pcalls' = Append(Append(pcalls, CallEnd), CallBegin(DU_DRAW_POINTS, 30))
    /\ ppc' = "pts"
    /\ pi' = 0
    /\ UNCHANGED <<pmesh, areaCol, pj, pcolor, plookups>>

\* one iteration of `for vert in mesh.verts.iter()`
PtsIter ==
    /\ ppc = "pts"
    /\ pi < pmesh.nverts
    /\ pcalls' = Append(pcalls, CallVertex(LiftPos(At(PVertPool, pi)), COL_VERTEX,
                                           <<"pts", pi, 0, pi>>))
    /\ pi' = pi + 1
    /\ UNCHANGED <<pmesh, areaCol, ppc, pj, pcolor, plookups>>

\* the final dd.end()
PtsEnd ==
    /\ ppc = "pts"
    /\ pi >= pmesh.nverts
    /\ pcalls' = Append(pcalls, CallEnd)
    /\ ppc' = "done"
    /\ UNCHANGED <<pmesh, areaCol, pi, pj, pcolor, plookups>>

PolyNext ==
    \/ PolyBegin /\ UNCHANGED <<svars, ovars, dvars>>
    \/ FillPoly /\ UNCHANGED <<svars, ovars, dvars>>
    \/ FillIter /\ UNCHANGED <<svars, ovars, dvars>>
    \/ FillEnd /\ UNCHANGED <<svars, ovars, dvars>>
    \/ BndPoly /\ UNCHANGED <<svars, ovars, dvars>>
    \/ BndIter /\ UNCHANGED <<svars, ovars, dvars>>
    \/ BndEnd /\ UNCHANGED <<svars, ovars, dvars>>
    \/ PtsIter /\ UNCHANGED <<svars, ovars, dvars>>
    \/ PtsEnd /\ UNCHANGED <<svars, ovars, dvars>>

SpecPoly == PolyInit /\ [][PolyNext]_vars

\* The same call on meshes that vary the area bytes over a few fixed rows:
\* up to MaxAreaPolys polygons, each row a triangle or a quad, with an
\* out-of-range index or a sentinel in some of them.
MaxAreaPolys == 2  \* most polygons in a mesh of AreaMeshes

RowPool == { <<0, 1, 0>>, <<0, 0, 1>>, <<0, 1, RC_MESH_NULL_IDX>>, <<0, 1, 1, 0>> }

AreaMeshes ==
    { m \in { [nverts |-> nv, polys |-> ps, areas |-> as, nvp |-> n] :
                nv \in {1, 2}, n \in {3, 4},
                ps \in SeqsUpTo(RowPool, MaxAreaPolys),
                as \in SeqsUpTo(AreaBytes, MaxAreaPolys) } :
        /\ Len(m.polys) >= 1
        /\ Len(m.areas) = Len(m.polys)
        /\ \A p \in 1..Len(m.polys) : Len(m.polys[p]) <= m.nvp }

PolyAreaInit ==
    /\ SlopeIdle
    /\ ObjIdle
    /\ SinkIdle
    /\ pmesh \in AreaMeshes
    /\ areaCol \in [AreaBytes \ {RC_NULL_AREA, RC_WALKABLE_AREA} -> AreaColours]
    /\ ppc = "start"
    /\ pi = 0
    /\ pj = 0
    /\ pcolor = <<>>
    /\ pcalls = <<>>
    /\ plookups = <<>>

SpecPolyArea == PolyAreaInit /\ [][PolyNext]_vars

----------------------------------------------------------------------------
(* debug_draw2.rs: du_debug_draw_tri_mesh_slope *)

DU_DRAW_TRIS == 2

\* Normal components are numerators over NDen = 8: with it 2 + nx + ny, the
\* division by 4 and the product with 220 are all exact in f32.
NDen == 8

\* cos() results are numerators over ThrDen = 2^25.
ThrDen == 33554432

MaxTris == 2       \* most triangles in an input mesh
MaxSVerts == 2     \* most vertices in an input mesh

\* World-space vertex positions of the input mesh (the first n are used).
SVertPool == << <<1, 2, 3>>, <<4, 5, 6>>, <<7, 8, 9>> >>

\* Normals <<x, y, z>>, unit and not, over NDen.
NormalSet ==
    { <<0, 8, 0>>, <<8, 0, 0>>, <<1, 0, 8>>, <<4, 4, 6>>, <<3, 6, 4>>,
      <<-16, -8, 0>>, <<16, 8, 0>> }

\* Index triples the triangles of an input mesh are drawn from.
TriPool == { <<0, 0, 0>>, <<0, 1, 0>>, <<1, 0, 1>> }

SlopeAngles == {0, 45, 60}
TexScales == {2}

\* (walkable_slope_angle / 180.0 * PI).cos() in f32, over ThrDen:
\*   0 -> 1.0, 45 -> 0.70710677, 60 -> 0.49999997
CosDeg(angle) ==
    CASE angle = 0  -> 33554432
      [] angle = 45 -> 23726566
      [] angle = 60 -> 16777215

UNWALKABLE == <<195075, 130050, 0, 260100>>        \* Vec4(0.75, 0.5, 0.0, 1.0)

Abs(x) == IF x < 0 THEN -x ELSE x

\* Rust's `x as u8` of the f32 num/den (den > 0): toward zero, saturating
F32AsU8_round(num, den) ==
    IF num <= 0 THEN 0
    ELSE IF (2 * num + den) \div (2 * den) > 255 THEN 255
    ELSE (2 * num + den) \div (2 * den)

F32AsU8(num, den) ==
    IF num <= 0 THEN 0
    ELSE IF num \div den > 255 THEN 255
    ELSE num \div den

\* let a = ((2.0 + norm.x + norm.y) / 4.0 * 220.0) as u8
SlopeLum(norm) == F32AsU8((2 * NDen + norm[1] + norm[2]) * 220, 4 * NDen)

\* Vec4::new(a / 255, a / 255, a / 255, 1.0)
BaseCol(a) == <<a * 1020, a * 1020, a * 1020, ColDen>>

\* a.lerp(b, t) with t = tn/td: a + (b - a) * t
lerp_col(a, b, tn, td) == [c \in 1..4 |-> a[c] + ((b[c] - a[c]) * tn) \div td]

\* norm.y < walkable_thr
TooSteep_orEqual(norm, thr) == norm[2] * (ThrDen \div NDen) <= thr

TooSteep(norm, thr) == norm[2] * (ThrDen \div NDen) < thr

SlopeColor(norm, thr) ==
    IF TooSteep(norm, thr) THEN lerp_col(BaseCol(SlopeLum(norm)), UNWALKABLE, 64, 255)
    ELSE BaseCol(SlopeLum(norm))

\* the axis chosen by the two comparisons, before the bit trick
SelectAxis(norm) ==
    LET ax1 == IF Abs(norm[2]) > Abs(norm[1]) THEN 1 ELSE 0
    IN  IF Abs(norm[3]) > Abs(At(norm, ax1)) THEN 2 ELSE ax1

\* (1 << ax) & 3
Pow2(n) == IF n = 0 THEN 1 ELSE IF n = 1 THEN 2 ELSE 4
ShiftMask_and1(ax) == Pow2(ax) % 2

ShiftMask(ax) == Pow2(ax) % 4

\* ax = (1 << ax) & 3;  ay = (1 << ax) & 3, the second reading the new ax
TexAx(norm) == ShiftMask(SelectAxis(norm))
TexAy_fromSelected(norm) == ShiftMask(SelectAxis(norm))

TexAy(norm) == ShiftMask(TexAx(norm))

\* Vec2::new(v[ax] * scale, v[ay] * scale)
tex_coord(v, ax, ay, scale) == <<At(v, ax) * scale, At(v, ay) * scale>>

\* A call on the textured sink (the DebugDraw trait of debug_draw2.rs).
SCallTexture(state) ==
    [op |-> "texture", state |-> state, prim |-> 0, pos |-> <<>>, color |-> <<>>,
     uv |-> <<>>]
SCallBegin(prim) ==
    [op |-> "begin", state |-> FALSE, prim |-> prim, pos |-> <<>>, color |-> <<>>,
     uv |-> <<>>]
SCallVertexUV(pos, color, uv) ==
    [op |-> "vertex_uv", state |-> FALSE, prim |-> 0, pos |-> pos, color |-> color,
     uv |-> uv]
SCallEnd ==
    [op |-> "end", state |-> FALSE, prim |-> 0, pos |-> <<>>, color |-> <<>>,
     uv |-> <<>>]

\* mesh.verts.is_empty() || mesh.tris.is_empty() || mesh.normals.is_empty()
AnyEmpty_all(mesh) == mesh.verts = <<>> /\ mesh.tris = <<>> /\ mesh.normals = <<>>

AnyEmpty(mesh) == mesh.verts = <<>> \/ mesh.tris = <<>> \/ mesh.normals = <<>>

\* normals: one normal per triangle, stored three times
RECURSIVE Thrice(_)
Thrice(ns) ==
    IF ns = <<>> THEN <<>>
    ELSE <<Head(ns), Head(ns), Head(ns)>> \o Thrice(Tail(ns))

\* The meshes of at most n triangles and at most n normals.
InputMeshes(n) ==
    { [verts |-> SubSeq(SVertPool, 1, nv), tris |-> Flatten(ts), normals |-> Thrice(ns)] :
        nv \in 0..MaxSVerts,
        ts \in SeqsUpTo(TriPool, n),
        ns \in SeqsUpTo(NormalSet, n) }

SlopeInit ==
    /\ PolyIdle
    /\ ObjIdle
    /\ SinkIdle
    /\ smesh \in InputMeshes(MaxTris)
    /\ sangle \in SlopeAngles
    /\ sscale \in TexScales
    /\ spc = "start"
    /\ si = 0
    /\ scalls = <<>>

\* the early return on an empty mesh
SlopeReturnEmpty ==
    /\ spc = "start"
    /\ AnyEmpty(smesh)
    /\ spc' = "done"
    /\ UNCHANGED <<smesh, sangle, sscale, si, scalls>>

\* dd.texture(true); dd.begin(DU_DRAW_TRIS, 1.0)
SlopeBegin ==
    /\ spc = "start"
    /\ ~AnyEmpty(smesh)
    /\ scalls' = Append(Append(scalls, SCallTexture(TRUE)), SCallBegin(DU_DRAW_TRIS))
    /\ si' = 0
    /\ spc' = "loop"
    /\ UNCHANGED <<smesh, sangle, sscale>>

\* every slice read of one iteration is in bounds
IterInBounds(mesh, i) ==
    /\ i < Len(mesh.normals)
    /\ i + 2 < Len(mesh.tris)
    /\ \A k \in 0..2 : /\ At(mesh.tris, i + k) >= 0
                       /\ At(mesh.tris, i + k) < Len(mesh.verts)

\* one iteration of `for i in (0..mesh.tris.len()).step_by(3)`
SlopeIter ==
    /\ spc = "loop"
    /\ si < Len(smesh.tris)
    /\ IF ~IterInBounds(smesh, si)
       THEN /\ spc' = "panic"
            /\ UNCHANGED <<si, scalls>>
       ELSE LET norm == At(smesh.normals, si)
                color == SlopeColor(norm, CosDeg(sangle))
                va == At(smesh.verts, At(smesh.tris, si))
                vb == At(smesh.verts, At(smesh.tris, si + 1))
                vc == At(smesh.verts, At(smesh.tris, si + 2))
                ax == TexAx(norm)
                ay == TexAy(norm)
            IN  /\ scalls' = scalls \o
                      << SCallVertexUV(va, color, tex_coord(va, ax, ay, sscale)),
                         SCallVertexUV(vb, color, tex_coord(vb, ax, ay, sscale)),
                         SCallVertexUV(vc, color, tex_coord(vc, ax, ay, sscale)) >>
                /\ si' = si + 3
                /\ UNCHANGED spc
    /\ UNCHANGED <<smesh, sangle, sscale>>

\* dd.end(); dd.texture(false)
SlopeEnd_textureFirst ==
    /\ spc = "loop"
    /\ si >= Len(smesh.tris)
    /\ scalls' = Append(Append(scalls, SCallTexture(FALSE)), SCallEnd)
    /\ spc' = "done"
    /\ UNCHANGED <<smesh, sangle, sscale, si>>

SlopeEnd ==
    /\ spc = "loop"
    /\ si >= Len(smesh.tris)
    /\ scalls' = Append(Append(scalls, SCallEnd), SCallTexture(FALSE))
    /\ spc' = "done"
    /\ UNCHANGED <<smesh, sangle, sscale, si>>

SlopeNext ==
    \/ SlopeReturnEmpty /\ UNCHANGED <<pvars, ovars, dvars>>
    \/ SlopeBegin /\ UNCHANGED <<pvars, ovars, dvars>>
    \/ SlopeIter /\ UNCHANGED <<pvars, ovars, dvars>>
    \/ SlopeEnd /\ UNCHANGED <<pvars, ovars, dvars>>

SpecSlope == SlopeInit /\ [][SlopeNext]_vars

----------------------------------------------------------------------------
(* Properties of du_debug_draw_poly_mesh *)

RECURSIVE ValidLen(_, _)
\* k: the length of the row's prefix of indices that are neither the sentinel
\* nor out of range
ValidLen(poly, nv) ==
    IF poly = <<>> THEN 0
    ELSE IF Head(poly) = RC_MESH_NULL_IDX \/ Head(poly) >= nv THEN 0
    ELSE 1 + ValidLen(Tail(poly), nv)

\* the vertex indices drawn for polygon p in a pass, in call order
IsDrawn(c, pass, p) == c.op = "vertex" /\ c.src[1] = pass /\ c.src[2] = p
Drawn(pass, p) ==
    LET hits == SelectSeq(pcalls, LAMBDA c : IsDrawn(c, pass, p))
    IN  [n \in 1..Len(hits) |-> hits[n].src[4]]

\* the fan (poly[0], poly[i-1], poly[i]) for i = 2..k-1, flattened
FanOf(poly, k) ==
    IF k < 3 THEN <<>>
    ELSE Flatten([t \in 1..(k - 2) |-> <<poly[1], poly[t + 1], poly[t + 2]>>])

\* the closed loop (poly[j], poly[(j+1) mod k]) for j = 0..k-1, flattened
LoopOf(poly, k) ==
    IF k < 1 THEN <<>>
    ELSE Flatten([j \in 1..k |-> <<poly[j], poly[(j % k) + 1]>>])

PolyEnded == ppc \in {"done", "panic"}

\* the fill pass is over for polygon p (0-based)
FillOver(p) ==
    \/ ppc \in {"bnd", "bnd_j", "pts", "done", "panic"}
    \/ ppc \in {"fill", "fill_j"} /\ pi > p

\* the boundary pass is over for polygon p, or the call has ended
BndOver(p) ==
    \/ ppc \in {"pts", "done", "panic"}
    \/ ppc \in {"bnd", "bnd_j"} /\ pi > p

\* C1: for every polygon with k valid indices the fill pass makes exactly
\* 3 * max(0, k - 2) vertex calls, the fan triangles (poly[0], poly[i-1],
\* poly[i]) for i = 2..k-1 in increasing order.
C1_FillEmitsFan ==
    \A p \in 0..(Len(pmesh.polys) - 1) :
        FillOver(p) =>
            Drawn("fill", p) =
                FanOf(At(pmesh.polys, p), ValidLen(At(pmesh.polys, p), pmesh.nverts))

\* C2: for every polygon with k valid indices the boundary pass makes exactly
\* 2 * k vertex calls, the edges valid j -> valid j + 1 and last -> first.
C2_BoundaryClosedLoop ==
    \A p \in 0..(Len(pmesh.polys) - 1) :
        BndOver(p) =>
            Drawn("bnd", p) =
                LoopOf(At(pmesh.polys, p), ValidLen(At(pmesh.polys, p), pmesh.nverts))

\* C3: with one area byte per polygon, nvp >= 0 and rows of any stored length
\* 0..nvp holding any indices, the call never fails.
C3_NeverFails == ppc # "panic"

\* the area byte's colour, as the claim states it
AreaColourOf(area) ==
    CASE area = 63 -> <<0, 195075, 260100, 65025>>
      [] area = 0  -> <<0, 0, 0, 65025>>
      [] OTHER     -> areaCol[area]

\* the polygons whose colour the fill pass has resolved so far
ColoursResolved ==
    CASE ppc \in {"idle", "start"} -> 0
      [] ppc = "fill"              -> pi
      [] ppc = "fill_j"            -> pi + 1
      [] OTHER                     -> Len(pmesh.polys)

\* C4: every fill-pass vertex of a polygon with area 63 carries the walkable
\* colour, with area 0 the null colour, with any other area the colour the
\* sink's area_to_col returns for it; the lookup is consulted for exactly the
\* polygons with another area byte, never for 0 or 63.
C4_FillColourByArea ==
    /\ \A n \in 1..Len(pcalls) :
          (pcalls[n].op = "vertex" /\ pcalls[n].src[1] = "fill") =>
              pcalls[n].color = AreaColourOf(At(pmesh.areas, pcalls[n].src[2]))
    /\ plookups = SelectSeq(SubSeq(pmesh.areas, 1, ColoursResolved),
                            LAMBDA a : a \notin {0, 63})

C4_Witness ==
    /\ ppc = "done"
    /\ Len(pmesh.polys) = 2
    /\ plookups # <<>>
    /\ \E n \in 1..Len(pcalls) :
          /\ pcalls[n].op = "vertex" /\ pcalls[n].src[1] = "fill"
          /\ At(pmesh.areas, pcalls[n].src[2]) = 7
          /\ pcalls[n].color = <<260100, 0, 0, 130050>>
    /\ \E p \in 1..2 : pmesh.areas[p] \in {0, 63}

----------------------------------------------------------------------------
(* Properties of du_debug_draw_tri_mesh_slope *)

\* Call n of scalls is a vertex call; calls 1 and 2 are texture(true) and
\* begin, so it belongs to triangle (n - 3) div 3, whose normal is
\* normals[3 * triangle].
IsSlopeVertex(n) == scalls[n].op = "vertex_uv"
NormalOfCall(n) == At(smesh.normals, 3 * ((n - 3) \div 3))

\* (2 + nx + ny) / 4 * 220 as the fraction LumNum / LumDen
LumNum(norm) == (2 * NDen + norm[1] + norm[2]) * 220
LumDen == 4 * NDen

\* round(clamp(v, 0, 255)) and floor(clamp(v, 0, 255))
RoundClamp(norm) ==
    IF LumNum(norm) <= 0 THEN 0
    ELSE IF LumNum(norm) >= 255 * LumDen THEN 255
    ELSE (2 * LumNum(norm) + LumDen) \div (2 * LumDen)
FloorClamp(norm) ==
    IF LumNum(norm) <= 0 THEN 0
    ELSE IF LumNum(norm) >= 255 * LumDen THEN 255
    ELSE LumNum(norm) \div LumDen

\* the grey a/255 and its blend toward (0.75, 0.5, 0, 1) by 64/255, over ColDen
Grey(a) == <<(a * ColDen) \div 255, (a * ColDen) \div 255, (a * ColDen) \div 255, ColDen>>
Blend64(c) ==
    << c[1] + ((195075 - c[1]) * 64) \div 255,
       c[2] + ((130050 - c[2]) * 64) \div 255,
       c[3] + ((0 - c[3]) * 64) \div 255,
       c[4] + ((ColDen - c[4]) * 64) \div 255 >>

\* normal.y < cos(walkableSlopeAngle), both sides as fractions
BelowThreshold(norm) == norm[2] * ThrDen < CosDeg(sangle) * NDen
AtThreshold(norm) == norm[2] * ThrDen = CosDeg(sangle) * NDen

\* C5 as stated: the grey base of every drawn triangle has the channel value
\* round(clamp((2 + nx + ny) / 4 * 220, 0, 255)) / 255.
C5_LuminanceRounded ==
    \A n \in 1..Len(scalls) :
        IsSlopeVertex(n) =>
            scalls[n].color \in { Grey(RoundClamp(NormalOfCall(n))),
                                  Blend64(Grey(RoundClamp(NormalOfCall(n)))) }

\* C5 amended: the grey base of every drawn triangle has the channel value
\* floor(clamp((2 + nx + ny) / 4 * 220, 0, 255)) / 255: the luminance byte is
\* truncated, not rounded to nearest.
C5_LuminanceTruncated ==
    \A n \in 1..Len(scalls) :
        IsSlopeVertex(n) =>
            scalls[n].color \in { Grey(FloorClamp(NormalOfCall(n))),
                                  Blend64(Grey(FloorClamp(NormalOfCall(n)))) }

C5_Witness ==
    /\ spc = "done"
    /\ \E n \in 1..Len(scalls) :
          /\ IsSlopeVertex(n)
          /\ RoundClamp(NormalOfCall(n)) # FloorClamp(NormalOfCall(n))
    /\ \E n \in 1..Len(scalls) :
          /\ IsSlopeVertex(n)
          /\ LumNum(NormalOfCall(n)) > 255 * LumDen

\* C6: the face colour is the grey base blended toward the unwalkable colour
\* by 64/255 iff normal.y < cos(walkableSlopeAngle); at normal.y >= cos(..),
\* equality included, it is the unblended grey base.
C6_BlendIffTooSteep ==
    \A n \in 1..Len(scalls) :
        IsSlopeVertex(n) =>
            LET norm == NormalOfCall(n)
                base == Grey(FloorClamp(norm))
            IN  /\ BelowThreshold(norm) => scalls[n].color = Blend64(base)
                /\ ~BelowThreshold(norm) => scalls[n].color = base

C6_Witness ==
    /\ spc = "done"
    /\ \E n \in 1..Len(scalls) :
          /\ IsSlopeVertex(n)
          /\ AtThreshold(NormalOfCall(n))
          /\ scalls[n].color = Grey(FloorClamp(NormalOfCall(n)))
    /\ \E n \in 1..Len(scalls) :
          /\ IsSlopeVertex(n)
          /\ BelowThreshold(NormalOfCall(n))
          /\ scalls[n].color # Grey(FloorClamp(NormalOfCall(n)))

\* C7: if any of the mesh's vertex, triangle-index or normal sequences is
\* empty, no call is ever made on the sink and the function returns.
C7_EmptyMeshNoCalls ==
    (spc # "idle" /\ (Len(smesh.verts) = 0 \/ Len(smesh.tris) = 0
                        \/ Len(smesh.normals) = 0))
        => (scalls = <<>> /\ spc \in {"start", "done"})

C7_Witness ==
    /\ spc = "done"
    /\ scalls = <<>>
    /\ Len(smesh.normals) = 0
    /\ Len(smesh.verts) > 0
    /\ Len(smesh.tris) > 0

----------------------------------------------------------------------------
(* Natural numbers of any size: usize values and the exact intermediate    *)
(* results of f32 parsing and arithmetic                                   *)

\* A natural number is the sequence of its digits in base 2^15 = 32768, the
\* least significant first and the last one not 0; <<>> is 0.
RECURSIVE NatOf(_)
NatOf(k) == IF k = 0 THEN <<>> ELSE <<k % 32768>> \o NatOf(k \div 32768)

RECURSIVE NInt(_)
\* the number as an integer (for numbers below 2^31)
NInt(a) == IF a = <<>> THEN 0 ELSE Head(a) + 32768 * NInt(Tail(a))

RECURSIVE NNorm(_)
NNorm(a) == IF a # <<>> /\ a[Len(a)] = 0 THEN NNorm(SubSeq(a, 1, Len(a) - 1)) ELSE a

RECURSIVE TwoTo(_)
TwoTo(n) == IF n = 0 THEN 1 ELSE 2 * TwoTo(n - 1)

RECURSIVE BitLen(_)
\* the number of binary digits of an integer
BitLen(k) == IF k = 0 THEN 0 ELSE 1 + BitLen(k \div 2)

\* the number of binary digits of a
NLen(a) == IF a = <<>> THEN 0 ELSE 15 * (Len(a) - 1) + BitLen(a[Len(a)])

RECURSIVE NAddC(_, _, _)
NAddC(a, b, c) ==
    IF b = <<>> /\ c = 0 THEN a
    ELSE IF a = <<>> /\ c = 0 THEN b
    ELSE IF a = <<>> /\ b = <<>> THEN <<c>>
    ELSE LET x == IF a = <<>> THEN 0 ELSE Head(a)
             y == IF b = <<>> THEN 0 ELSE Head(b)
         IN  <<(x + y + c) % 32768>>
                 \o NAddC(IF a = <<>> THEN <<>> ELSE Tail(a),
                          IF b = <<>> THEN <<>> ELSE Tail(b), (x + y + c) \div 32768)

\* a + b
NAdd(a, b) == NAddC(a, b, 0)

RECURSIVE NSubB(_, _, _)
NSubB(a, b, c) ==
    IF a = <<>> THEN <<>>
    ELSE IF b = <<>> /\ c = 0 THEN a
    ELSE LET y == IF b = <<>> THEN 0 ELSE Head(b)
             d == Head(a) - y - c
         IN  <<(d + 32768) % 32768>>
                 \o NSubB(Tail(a), IF b = <<>> THEN <<>> ELSE Tail(b),
                          IF d < 0 THEN 1 ELSE 0)

\* a - b for a >= b
NSub(a, b) == NNorm(NSubB(a, b, 0))

RECURSIVE NLeqTop(_, _, _)
NLeqTop(a, b, n) ==
    IF n = 0 THEN TRUE
    ELSE IF a[n] < b[n] THEN TRUE
    ELSE IF a[n] > b[n] THEN FALSE
    ELSE NLeqTop(a, b, n - 1)

\* a <= b
NLeq(a, b) == Len(a) < Len(b) \/ (Len(a) = Len(b) /\ NLeqTop(a, b, Len(a)))

RECURSIVE NMul1(_, _, _)
\* a * m + c for one digit m > 0 and a carry c
NMul1(a, m, c) ==
    IF a = <<>> THEN (IF c = 0 THEN <<>> ELSE <<c>>)
    ELSE <<(Head(a) * m + c) % 32768>>
             \o NMul1(Tail(a), m, (Head(a) * m + c) \div 32768)

RECURSIVE NMul(_, _)
\* a * b
NMul(a, b) ==
    IF a = <<>> \/ b = <<>> THEN <<>>
    ELSE LET Up(rest) == IF rest = <<>> THEN <<>> ELSE <<0>> \o rest
         IN  NAdd(IF Head(a) = 0 THEN <<>> ELSE NMul1(b, Head(a), 0),
                  Up(NMul(Tail(a), b)))

\* a * 2^k
NShl(a, k) ==
    IF a = <<>> THEN <<>>
    ELSE [n \in 1..(k \div 15) |-> 0] \o NMul1(a, TwoTo(k % 15), 0)

RECURSIVE NDivFrom(_, _, _, _)
\* long division: the binary digits i, i - 1, .., 0 of the quotient are still
\* to be found, q holds the digits above them and r is what is left of the
\* dividend
NDivFrom(d, i, q, r) ==
    LET Step(t) ==
            IF NLeq(t, r) THEN NDivFrom(d, i - 1, NAdd(q, NShl(<<1>>, i)), NSub(r, t))
            ELSE NDivFrom(d, i - 1, q, r)
    IN  IF i < 0 THEN [q |-> q, r |-> r] ELSE Step(NShl(d, i))

\* quotient and remainder of n by d > 0: by the division of integers when
\* both are below 2^30, by long division otherwise, where n < 2^NLen(n) and
\* d >= 2^(NLen(d) - 1) leave the quotient no digit above the one numbered
\* NLen(n) - NLen(d)
NDivMod(n, d) ==
    IF NLen(n) <= 30 /\ NLen(d) <= 30
    THEN [q |-> NatOf(NInt(n) \div NInt(d)), r |-> NatOf(NInt(n) % NInt(d))]
    ELSE NDivFrom(d, NLen(n) - NLen(d), <<>>, n)

RECURSIVE TenTo(_)
\* 10^n
TenTo(n) == IF n = 0 THEN <<1>> ELSE NMul1(TenTo(n - 1), 10, 0)

RECURSIVE NSqrtFrom(_, _, _)
\* floor(sqrt(n)), one binary digit after the other from digit i - 1 down: r
\* keeps every digit whose addition leaves r * r <= n
NSqrtFrom(n, i, r) ==
    LET Step(t) ==
            IF NLeq(NMul(t, t), n) THEN NSqrtFrom(n, i - 1, t)
            ELSE NSqrtFrom(n, i - 1, r)
    IN  IF i = 0 THEN r ELSE Step(NAdd(r, NShl(<<1>>, i - 1)))

----------------------------------------------------------------------------
(* f32: the values and the arithmetic of obj_loader.rs and obj_to_input_mesh *)

\* An f32 is [cls, sign, man, exp]: cls "fin" is (-1)^sign * man * 2^exp with
\* man odd, or man = 0 and exp = 0 for the two zeros; cls "inf" is the
\* infinity of that sign; cls "nan" is NaN.
F32Zero(sign) == [cls |-> "fin", sign |-> sign, man |-> 0, exp |-> 0]
F32Inf(sign) == [cls |-> "inf", sign |-> sign, man |-> 0, exp |-> 0]
F32NaN == [cls |-> "nan", sign |-> 0, man |-> 0, exp |-> 0]

RECURSIVE F32Fin(_, _, _)
\* man * 2^exp, man > 0, with the factors of two moved into the exponent
F32Fin(sign, man, exp) ==
    IF man % 2 = 0 THEN F32Fin(sign, man \div 2, exp + 1)
    ELSE [cls |-> "fin", sign |-> sign, man |-> man, exp |-> exp]

\* floor(log2(n / d)) for n, d > 0
FloorLog2(n, d) ==
    LET k == NLen(n) - NLen(d)
    IN  IF NLeq(NShl(d, IF k >= 0 THEN k ELSE 0), NShl(n, IF k >= 0 THEN 0 ELSE -k))
        THEN k ELSE k - 1

\* n / d rounded to the nearest integer, ties to even
RoundHalfEven(n, d) ==
    LET Pick(q, twice) ==
            IF twice = d THEN (IF q % 2 = 0 THEN q ELSE q + 1)
            ELSE IF NLeq(twice, d) THEN q
            ELSE q + 1
        Of(dm) == Pick(NInt(dm.q), NMul1(dm.r, 2, 0))
    IN  Of(NDivMod(n, d))

\* The f32 nearest to (-1)^sign * (n / d) * 2^x, ties to even: 24 bits of
\* mantissa, exponent of the last bit from -149 (subnormals) to 104, and
\* infinity from 2^128 on.
RoundF32(sign, n, d, x) ==
    LET Pack(e, q) ==
            IF q = 0 THEN F32Zero(sign)
            ELSE IF e = 104 /\ q = TwoTo(24) THEN F32Inf(sign)
            ELSE F32Fin(sign, q, e)
        \* e: the exponent of the last binary digit kept
        AtExp(e) ==
            IF e > 104 THEN F32Inf(sign)
            ELSE Pack(e, RoundHalfEven(NShl(n, IF x >= e THEN x - e ELSE 0),
                                       NShl(d, IF x >= e THEN 0 ELSE e - x)))
        \* lg = floor(log2 of the number); below 2^(-150) it rounds to zero
        AtLog(lg) ==
            IF lg < -151 THEN F32Zero(sign)
            ELSE AtExp(IF lg - 23 < -149 THEN -149 ELSE lg - 23)
    IN  IF n = <<>> THEN F32Zero(sign) ELSE AtLog(FloorLog2(n, d) + x)

IsZero(a) == a.cls = "fin" /\ a.man = 0

\* a + b
F32Add(a, b) ==
    LET e == IF a.exp < b.exp THEN a.exp ELSE b.exp
        \* x = |a| * 2^(-e), y = |b| * 2^(-e)
        Sum(x, y) ==
            IF a.sign = b.sign THEN RoundF32(a.sign, NAdd(x, y), <<1>>, e)
            ELSE IF x = y THEN F32Zero(0)
            ELSE RoundF32(IF NLeq(y, x) THEN a.sign ELSE b.sign,
                          NSub(IF NLeq(y, x) THEN x ELSE y, IF NLeq(y, x) THEN y ELSE x),
                          <<1>>, e)
    IN  IF a.cls = "nan" \/ b.cls = "nan" THEN F32NaN
        ELSE IF a.cls = "inf" /\ b.cls = "inf"
             THEN IF a.sign = b.sign THEN a ELSE F32NaN
        ELSE IF a.cls = "inf" THEN a
        ELSE IF b.cls = "inf" THEN b
        ELSE IF IsZero(a) /\ IsZero(b)
             THEN F32Zero(IF a.sign = b.sign THEN a.sign ELSE 0)
        ELSE IF IsZero(a) THEN b
        ELSE IF IsZero(b) THEN a
        ELSE Sum(NShl(NatOf(a.man), a.exp - e), NShl(NatOf(b.man), b.exp - e))

\* a - b
F32Sub(a, b) == F32Add(a, IF b.cls = "nan" THEN b ELSE [b EXCEPT !.sign = 1 - b.sign])

\* a * b
F32Mul(a, b) ==
    LET sign == (a.sign + b.sign) % 2
    IN  IF a.cls = "nan" \/ b.cls = "nan" THEN F32NaN
        ELSE IF a.cls = "inf" \/ b.cls = "inf"
             THEN IF IsZero(a) \/ IsZero(b) THEN F32NaN ELSE F32Inf(sign)
        ELSE IF IsZero(a) \/ IsZero(b) THEN F32Zero(sign)
        ELSE RoundF32(sign, NMul(NatOf(a.man), NatOf(b.man)), <<1>>, a.exp + b.exp)

\* f32::recip: 1.0 / a
F32Recip(a) ==
    IF a.cls = "nan" THEN F32NaN
    ELSE IF a.cls = "inf" THEN F32Zero(a.sign)
    ELSE IF IsZero(a) THEN F32Inf(a.sign)
    ELSE RoundF32(a.sign, <<1>>, NatOf(a.man), -a.exp)

\* f32::sqrt: the f32 nearest to the square root. The argument is written
\* m * 4^(h - t) with m of more than 50 binary digits and r = floor(sqrt(m)),
\* of more than 25: when r * r = m the root is r * 2^(h - t); otherwise
\* it lies strictly between r and r + 1, and r + 1/2 rounds as every number
\* between them does.
F32Sqrt(a) ==
    LET odd == a.exp % 2 = 1
        h == IF odd THEN (a.exp - 1) \div 2 ELSE a.exp \div 2
        t == 25
        Root(m, r) ==
            RoundF32(0, IF NMul(r, r) = m THEN r ELSE NMul1(r, 2, 1), <<1>>,
                     IF NMul(r, r) = m THEN h - t ELSE h - t - 1)
        Of(m) == Root(m, NSqrtFrom(m, (NLen(m) + 1) \div 2, <<>>))
    IN  IF a.cls = "nan" THEN F32NaN
        ELSE IF IsZero(a) THEN a
        ELSE IF a.sign = 1 THEN F32NaN
        ELSE IF a.cls = "inf" THEN a
        ELSE Of(NShl(NatOf(a.man), 2 * t + (IF odd THEN 1 ELSE 0)))

----------------------------------------------------------------------------
(* obj_loader.rs: load_obj, ObjData *)

MaxLines == 4      \* most lines in a file

\* A token is a sequence of characters.

DigitVal(c) ==
    CASE c = "0" -> 0 [] c = "1" -> 1 [] c = "2" -> 2 [] c = "3" -> 3
      [] c = "4" -> 4 [] c = "5" -> 5 [] c = "6" -> 6 [] c = "7" -> 7
      [] c = "8" -> 8 [] c = "9" -> 9

AllDigits(s) ==
    \A n \in 1..Len(s) : s[n] \in {"0", "1", "2", "3", "4", "5", "6", "7", "8", "9"}

RECURSIVE StripZeros(_)
StripZeros(ds) == IF ds # <<>> /\ Head(ds) = "0" THEN StripZeros(Tail(ds)) ELSE ds

RECURSIVE NDec(_)
\* the number a string of decimal digits writes
NDec(ds) ==
    IF ds = <<>> THEN <<>>
    ELSE NMul1(NDec(SubSeq(ds, 1, Len(ds) - 1)), 10, DigitVal(ds[Len(ds)]))

\* the Err of str::parse::<usize>()
ParseErr == <<-1>>

\* str::parse::<usize>(): an optional '+', then one or more digits writing a
\* number up to usize::MAX = 2^64 - 1
ParseUsize(s) ==
    LET Fits(n) == IF NLen(n) <= 64 THEN n ELSE ParseErr
        Of(body) == IF body = <<>> \/ ~AllDigits(body) THEN ParseErr ELSE Fits(NDec(body))
    IN  Of(IF s # <<>> /\ Head(s) = "+" THEN Tail(s) ELSE s)

RECURSIVE FirstField_lastField(_)
FirstField_lastField(tok) ==
    IF tok = <<>> \/ tok[Len(tok)] = "/" THEN <<>>
    ELSE FirstField_lastField(SubSeq(tok, 1, Len(tok) - 1)) \o <<tok[Len(tok)]>>

\* token.split('/').next(): the text before the first '/'
RECURSIVE FirstField(_)
FirstField(tok) ==
    IF tok = <<>> \/ Head(tok) = "/" THEN <<>>
    ELSE <<Head(tok)>> \o FirstField(Tail(tok))

RECURSIVE UpToPoint(_)
UpToPoint(s) ==
    IF s = <<>> \/ Head(s) = "." THEN <<>>
    ELSE <<Head(s)>> \o UpToPoint(Tail(s))

RECURSIVE UpToExp(_)
\* the text before the first 'e' or 'E'
UpToExp(s) ==
    IF s = <<>> \/ Head(s) \in {"e", "E"} THEN <<>>
    ELSE <<Head(s)>> \o UpToExp(Tail(s))

\* ASCII lower case of the letters of "infinity" and "nan"
Lower(s) ==
    [n \in 1..Len(s) |->
        CASE s[n] = "I" -> "i" [] s[n] = "N" -> "n" [] s[n] = "F" -> "f"
          [] s[n] = "T" -> "t" [] s[n] = "Y" -> "y" [] s[n] = "A" -> "a"
          [] OTHER -> s[n]]

RECURSIVE ExpVal(_)
\* the exponent as the parser accumulates it, one digit after the other:
\* `if exponent < 0x10000 { exponent = 10 * exponent + digit }`, so that the
\* digits written after a value of 65536 or more are dropped
ExpVal(ds) ==
    LET Step(e) == IF e < 65536 THEN 10 * e + DigitVal(ds[Len(ds)]) ELSE e
    IN  IF ds = <<>> THEN 0 ELSE Step(ExpVal(SubSeq(ds, 1, Len(ds) - 1)))

\* str::parse::<f32>(): [ok, val]. An optional sign, then "inf", "infinity"
\* or "nan" in any case, or a decimal number: digits with an optional point
\* among them (at least one digit), then an optional exponent 'e' or 'E' with
\* an optional sign and at least one digit. The value is the f32 nearest to
\* the number written.
ParseF32(s) ==
    LET \* sig: the digits from the first one that is not 0; the number is
        \* sig * 10^e10, below 10^(Len(sig) + e10) and, unless sig is empty, at
        \* least 10^(Len(sig) + e10 - 1)
        Value(sign, sig, e10) ==
            IF sig = <<>> THEN F32Zero(sign)
            ELSE IF Len(sig) + e10 > 39 THEN F32Inf(sign)
            ELSE IF Len(sig) + e10 < -46 THEN F32Zero(sign)
            ELSE RoundF32(sign, NMul(NDec(sig), TenTo(IF e10 >= 0 THEN e10 ELSE 0)),
                          TenTo(IF e10 >= 0 THEN 0 ELSE -e10), 0)
        Number(sign, int, frac, hasExp, expNeg, expDigits) ==
            IF /\ AllDigits(int) /\ AllDigits(frac)
               /\ int # <<>> \/ frac # <<>>
               /\ hasExp => (expDigits # <<>> /\ AllDigits(expDigits))
            THEN [ok |-> TRUE,
                  val |-> Value(sign, StripZeros(int \o frac),
                                (IF expNeg THEN -ExpVal(expDigits) ELSE ExpVal(expDigits))
                                    - Len(frac))]
            ELSE [ok |-> FALSE, val |-> F32NaN]
        \* mant: the text before the exponent's letter, expo: the text after it
        Parts(sign, mant, expo, hasExp) ==
            Number(sign, UpToPoint(mant),
                   SubSeq(mant, Len(UpToPoint(mant)) + 2, Len(mant)), hasExp,
                   expo # <<>> /\ Head(expo) = "-",
                   IF expo # <<>> /\ Head(expo) \in {"-", "+"} THEN Tail(expo) ELSE expo)
        Body(sign, body) ==
            IF Lower(body) \in {<<"i", "n", "f">>, <<"i", "n", "f", "i", "n", "i", "t", "y">>}
            THEN [ok |-> TRUE, val |-> F32Inf(sign)]
            ELSE IF Lower(body) = <<"n", "a", "n">> THEN [ok |-> TRUE, val |-> F32NaN]
            ELSE Parts(sign, UpToExp(body),
                       SubSeq(body, Len(UpToExp(body)) + 2, Len(body)),
                       Len(UpToExp(body)) < Len(body))
    IN  Body(IF s # <<>> /\ Head(s) = "-" THEN 1 ELSE 0,
             IF s # <<>> /\ Head(s) \in {"-", "+"} THEN Tail(s) ELSE s)

\* (A vector or a list made with [k \in 1..n |-> e] is followed by \o <<>>,
\* which leaves it as it is: the sequence is then held as its n values, and
\* e is not computed again each time an element is read.)

\* the face's indices: each token's first field parsed as usize;
\* <<ParseErr>> when any of them fails to parse
ParseFace(toks) ==
    LET Of(idx) == IF \E n \in 1..Len(idx) : idx[n] = ParseErr THEN <<ParseErr>> ELSE idx
    IN  Of([n \in 1..Len(toks) |-> ParseUsize(FirstField(toks[n]))] \o <<>>)

\* the three coordinates after "v": each `tokens.next()` must exist and parse
ParseVertex(toks) ==
    IF Len(toks) < 3 THEN [ok |-> FALSE, v |-> <<>>]
    ELSE LET Of(xyz) ==
                 IF \A k \in 1..3 : xyz[k].ok
                 THEN [ok |-> TRUE, v |-> [k \in 1..3 |-> xyz[k].val]]
                 ELSE [ok |-> FALSE, v |-> <<>>]
         IN  Of([k \in 1..3 |-> ParseF32(toks[k])] \o <<>>)

\* a line that reader.lines() yields as Err: its bytes are not UTF-8, or the
\* read fails (the path is a directory, the device fails)
Unreadable == << <<"unreadable">> >>

\* The lines a file is made of.  toks is the line after split_whitespace(),
\* and a file is a sequence of these; kind, xyz and val say what the line is
\* in the OBJ format ("v": a well-formed vertex line with the f32 coordinates
\* xyz, "f": a well-formed face line with the indices val, "other": starts
\* with neither v nor f, "bad": malformed, "unreadable": no line is read).
\* load_obj reads toks only.
LinePool ==
    { [toks |-> << <<"v">>, <<"0">>, <<"0">>, <<"0">> >>,
       kind |-> "v", val |-> <<>>,
       xyz |-> <<F32Zero(0), F32Zero(0), F32Zero(0)>>],
      [toks |-> << <<"v">>, <<"-", "1">>, <<"2", ".", "0", "0">>, <<"0">>, <<"7">> >>,
       kind |-> "v", val |-> <<>>,
       xyz |-> <<[cls |-> "fin", sign |-> 1, man |-> 1, exp |-> 0],
                 [cls |-> "fin", sign |-> 0, man |-> 1, exp |-> 1], F32Zero(0)>>],
      [toks |-> << <<"v">>, <<"-", "0">>, <<"1", "e", "0">>, <<"5", "0", "E", "-", "2">> >>,
       kind |-> "v", val |-> <<>>,
       xyz |-> <<F32Zero(1), [cls |-> "fin", sign |-> 0, man |-> 1, exp |-> 0],
                 [cls |-> "fin", sign |-> 0, man |-> 1, exp |-> -1]>>],
      [toks |-> << <<"f">>, <<"1">>, <<"2">>, <<"3">>, <<"4">> >>,
       kind |-> "f", val |-> <<NatOf(1), NatOf(2), NatOf(3), NatOf(4)>>, xyz |-> <<>>],
      [toks |-> << <<"f">>, <<"3", "/", "1", "/", "1">>, <<"2", "/", "/", "2">>,
                   <<"1", "/", "3">> >>,
       kind |-> "f", val |-> <<NatOf(3), NatOf(2), NatOf(1)>>, xyz |-> <<>>],
      [toks |-> << <<"f">>, <<"1">>, <<"2">> >>,
       kind |-> "f", val |-> <<NatOf(1), NatOf(2)>>, xyz |-> <<>>],
      [toks |-> << <<"f">>, <<"0">>, <<"1">>, <<"5">> >>,
       kind |-> "f", val |-> <<NatOf(0), NatOf(1), NatOf(5)>>, xyz |-> <<>>],
      [toks |-> << <<"f">>, <<"4", "2", "9", "4", "9", "6", "7", "2", "9", "7">>,
                   <<"4", "2", "9", "4", "9", "6", "7", "2", "9", "8">>,
                   <<"4", "2", "9", "4", "9", "6", "7", "2", "9", "9">> >>,
       kind |-> "f", xyz |-> <<>>,
       val |-> <<NAdd(NShl(<<1>>, 32), NatOf(1)), NAdd(NShl(<<1>>, 32), NatOf(2)),
                 NAdd(NShl(<<1>>, 32), NatOf(3))>>],
      [toks |-> << <<"v", "n">>, <<"0">>, <<"1">>, <<"0">> >>,
       kind |-> "other", val |-> <<>>, xyz |-> <<>>],
      [toks |-> << <<"v">>, <<"1">>, <<"x">>, <<"0">> >>,
       kind |-> "bad", val |-> <<>>, xyz |-> <<>>],
      [toks |-> << <<"f">>, <<"1">>, <<"-", "2">>, <<"3">> >>,
       kind |-> "bad", val |-> <<>>, xyz |-> <<>>],
      [toks |-> << <<"f">>, <<"1">>, <<"2">>,
                   <<"1", "8", "4", "4", "6", "7", "4", "4", "0", "7",
                     "3", "7", "0", "9", "5", "5", "1", "6", "1", "6">> >>,
       kind |-> "bad", val |-> <<>>, xyz |-> <<>>],
      [toks |-> Unreadable, kind |-> "unreadable", val |-> <<>>, xyz |-> <<>>] }

\* the path names no readable file
NoFile == << << <<"nofile">> >> >>

\* what a line of the pool is in the OBJ format
LineOf(toks) == CHOOSE l \in LinePool : l.toks = toks

ObjInitBase ==
    /\ \/ ofile = NoFile
       \/ \E n \in 0..MaxLines : ofile \in [1..n -> {l.toks : l \in LinePool}]
    /\ lineno = 0
    /\ vertices = << <<F32Zero(0), F32Zero(0), F32Zero(0)>> >>
    /\ faces = <<>>
    /\ lres = "reading"
    /\ triangles = <<"none">>
    /\ imesh = NoMesh

\* File::open(path)? fails
LoadOpenError ==
    /\ lres = "reading"
    /\ ofile = NoFile
    /\ lres' = "err_io"
    /\ UNCHANGED <<ofile, lineno, vertices, faces, triangles, imesh>>

CurToks == ofile[lineno + 1]

\* tokens.next(): the first token, or <<>> for None (no token is empty)
FirstToken(toks) == IF toks = <<>> THEN <<>> ELSE Head(toks)
\* the loop has a next line and `line?` yields it
Reading ==
    /\ lres = "reading"
    /\ ofile # NoFile
    /\ lineno < Len(ofile)
    /\ CurToks # Unreadable

\* `let line = line?;` returns the Err of an unreadable line; what was pushed
\* before is dropped with the function's locals
LoadReadError ==
    /\ lres = "reading"
    /\ ofile # NoFile
    /\ lineno < Len(ofile)
    /\ CurToks = Unreadable
    /\ lres' = "err_io"
    /\ UNCHANGED <<ofile, lineno, vertices, faces, triangles, imesh>>

\* Some("v") => parse x, y, z and push the vertex
LoadVertexLine ==
    /\ Reading
    /\ FirstToken(CurToks) = <<"v">>
    /\ \E r \in {ParseVertex(Tail(CurToks))} :
           IF r.ok
           THEN /\ vertices' = Append(vertices, r.v)
                /\ lineno' = lineno + 1
                /\ UNCHANGED lres
           ELSE /\ lres' = "err_parse"
                /\ UNCHANGED <<vertices, lineno>>
    /\ UNCHANGED <<ofile, faces, triangles, imesh>>

\* Some("f") => collect the indices and push the face
LoadFaceLine ==
    /\ Reading
    /\ FirstToken(CurToks) = <<"f">>
    /\ \E idx \in {ParseFace(Tail(CurToks))} :
           IF idx # <<ParseErr>>
           THEN /\ faces' = Append(faces, idx)
                /\ lineno' = lineno + 1
                /\ UNCHANGED lres
           ELSE /\ lres' = "err_parse"
                /\ UNCHANGED <<faces, lineno>>
    /\ UNCHANGED <<ofile, vertices, triangles, imesh>>

\* _ => continue
LoadOtherLine ==
    /\ Reading
    /\ FirstToken(CurToks) \notin {<<"v">>, <<"f">>}
    /\ lineno' = lineno + 1
    /\ UNCHANGED <<ofile, vertices, faces, lres, triangles, imesh>>

\* Ok(ObjData { vertices, faces })
LoadReturn ==
    /\ lres = "reading"
    /\ ofile # NoFile
    /\ lineno >= Len(ofile)
    /\ lres' = "ok"
    /\ UNCHANGED <<ofile, lineno, vertices, faces, triangles, imesh>>

\* ObjData::vertex_count, ObjData::face_count
vertex_count == Len(vertices) - 1
face_count == Len(faces)

RECURSIVE FanLoop(_, _, _)
\* for i in 1..(face.len() - 1) { triangles.push([face[0], face[i], face[i + 1]]) }
FanLoop(face, i, acc) ==
    IF i >= Len(face) - 1 THEN acc
    ELSE FanLoop(face, i + 1, Append(acc, <<At(face, 0), At(face, i), At(face, i + 1)>>))

FaceTriangles_strip(face, acc) ==
    IF Len(face) >= 3
    THEN acc \o [i \in 1..(Len(face) - 2) |-> <<face[i], face[i + 1], face[i + 2]>>]
    ELSE acc

\* the body of `for face in &self.faces`
FaceTriangles(face, acc) == IF Len(face) >= 3 THEN FanLoop(face, 1, acc) ELSE acc

RECURSIVE TriangulateFrom(_, _)
TriangulateFrom(fs, acc) ==
    IF fs = <<>> THEN acc
    ELSE TriangulateFrom(Tail(fs), FaceTriangles(Head(fs), acc))

\* ObjData::triangulate
triangulate(fs) == TriangulateFrom(fs, <<>>)

\* a caller invokes triangulate() on the loaded ObjData
CallTriangulate ==
    /\ lres = "ok"
    /\ triangles = <<"none">>
    /\ triangles' = triangulate(faces)
    /\ UNCHANGED <<ofile, lineno, vertices, faces, lres, imesh>>

\* ---- viewer.rs: obj_to_input_mesh ----

\* `u as i32` of a usize: the low 32 binary digits, as a two's complement
\* number; the third digit in base 2^15 holds the binary digits 31 and 32
AsI32(u) ==
    LET top == IF Len(u) >= 3 THEN u[3] % 4 ELSE 0
        low == NInt(SubSeq(u, 1, IF Len(u) < 2 THEN Len(u) ELSE 2))
                   + (top % 2) * 1073741824
    IN  IF top >= 2 THEN low - 2147483647 - 1 ELSE low

\* (tri[k] - 1) as i32. For tri[k] = 0 a build with overflow checks panics at
\* the subtraction; without them it wraps to usize::MAX, whose low 32 bits
\* are -1 as i32, and `as usize` (line 228) makes of that an index past
\* every vector: the conversion panics in both builds.
ZeroBased(i) == IF i = <<>> THEN -1 ELSE AsI32(NSub(i, <<1>>))

\* triangles.iter().flat_map(|tri| [tri[0] - 1, tri[1] - 1, tri[2] - 1]).map(|i| i as i32)
RECURSIVE FlatZeroBased(_)
FlatZeroBased(ts) ==
    IF ts = <<>> THEN <<>>
    ELSE [k \in 1..3 |-> ZeroBased(Head(ts)[k])] \o FlatZeroBased(Tail(ts))

\* mesh.verts[chunk[k] as usize] is in bounds for k = 0, 1, 2 of the chunk at i
ChunkInBounds(verts, tris, i) ==
    \A k \in 0..2 : At(tris, i + k) >= 0 /\ At(tris, i + k) < Len(verts)

\* Vec3 - Vec3
VSub(a, b) == [k \in 1..3 |-> F32Sub(a[k], b[k])] \o <<>>

\* Vec3::cross: (y * rz - ry * z, z * rx - rz * x, x * ry - rx * y); component
\* k is made of the components k + 1 and k + 2, counted around
Cross(a, b) ==
    [k \in 1..3 |->
        F32Sub(F32Mul(a[(k % 3) + 1], b[((k + 1) % 3) + 1]),
               F32Mul(b[(k % 3) + 1], a[((k + 1) % 3) + 1]))] \o <<>>

\* Vec3::dot
Dot(a, b) ==
    LET p == [k \in 1..3 |-> F32Mul(a[k], b[k])]
    IN  F32Add(F32Add(p[1], p[2]), p[3])

\* Vec3::length_recip: self.length().recip()
LengthRecip(v) == F32Recip(F32Sqrt(Dot(v, v)))

\* Vec3::normalize: self * self.length_recip(). A zero vector gives
\* 0 * inf = NaN in every component.
NaNVec == <<F32NaN, F32NaN, F32NaN>>
Normalize(v) ==
    LET r == LengthRecip(v)
    IN  [k \in 1..3 |-> F32Mul(v[k], r)] \o <<>>

\* (v1 - v0).cross(v2 - v0).normalize()
FaceNormal(v0, v1, v2) == Normalize(Cross(VSub(v1, v0), VSub(v2, v0)))

RECURSIVE NormalsFrom(_, _, _, _)
\* for chunk in mesh.tris.chunks(3): the normals pushed from chunk i on, or
\* <<"panic">> when a vertex read is out of bounds
NormalsFrom(verts, tris, i, acc) ==
    IF i >= Len(tris) THEN acc
    ELSE IF ~ChunkInBounds(verts, tris, i) THEN <<"panic">>
    ELSE LET Push(normal) == NormalsFrom(verts, tris, i + 3, acc \o <<normal, normal, normal>>)
         IN  Push(FaceNormal(At(verts, At(tris, i)), At(verts, At(tris, i + 1)),
                             At(verts, At(tris, i + 2))))

\* obj_to_input_mesh(obj)
obj_to_input_mesh(vs, fs) ==
    LET Mesh(verts, tris, normals) ==
            IF normals = <<"panic">>
            THEN [status |-> "panic", verts |-> <<>>, tris |-> <<>>, normals |-> <<>>]
            ELSE [status |-> "ok", verts |-> verts, tris |-> tris, normals |-> normals]
        Normals(verts, tris) == Mesh(verts, tris, NormalsFrom(verts, tris, 0, <<>>))
    IN  Normals(Tail(vs), FlatZeroBased(triangulate(fs)))

\* the viewer converts the ObjData of a successful load
CallObjToInputMesh ==
    /\ lres = "ok"
    /\ imesh = NoMesh
    /\ imesh' = obj_to_input_mesh(vertices, faces)
    /\ UNCHANGED <<ofile, lineno, vertices, faces, lres, triangles>>

ObjInit ==
    /\ PolyIdle
    /\ SlopeIdle
    /\ SinkIdle
    /\ ObjInitBase

ObjNext ==
    \/ LoadOpenError /\ UNCHANGED <<pvars, svars, dvars>>
    \/ LoadReadError /\ UNCHANGED <<pvars, svars, dvars>>
    \/ LoadVertexLine /\ UNCHANGED <<pvars, svars, dvars>>
    \/ LoadFaceLine /\ UNCHANGED <<pvars, svars, dvars>>
    \/ LoadOtherLine /\ UNCHANGED <<pvars, svars, dvars>>
    \/ LoadReturn /\ UNCHANGED <<pvars, svars, dvars>>
    \/ CallTriangulate /\ UNCHANGED <<pvars, svars, dvars>>
    \/ CallObjToInputMesh /\ UNCHANGED <<pvars, svars, dvars>>

SpecObj == ObjInit /\ [][ObjNext]_vars

----------------------------------------------------------------------------
(* Properties of load_obj and ObjData::triangulate *)

\* max(0, n - 2) for a face of n indices
FanCount(face) == IF Len(face) >= 3 THEN Len(face) - 2 ELSE 0

RECURSIVE FanCountSum(_)
FanCountSum(fs) == IF fs = <<>> THEN 0 ELSE FanCount(Head(fs)) + FanCountSum(Tail(fs))

\* C8: triangulate() returns, face by face in face order, the n - 2 triangles
\* (f0, fi, f(i+1)), i = 1..n-2 in increasing i, of every face with n >= 3
\* indices and nothing for a shorter face; the total is the sum of
\* max(0, n - 2).
C8_TriangulateIsFan ==
    triangles # <<"none">> =>
        /\ Len(triangles) = FanCountSum(faces)
        /\ \A f \in 1..Len(faces) :
              \A i \in 1..FanCount(faces[f]) :
                  triangles[FanCountSum(SubSeq(faces, 1, f - 1)) + i]
                      = <<faces[f][1], faces[f][i + 1], faces[f][i + 2]>>

C8_Witness ==
    /\ triangles # <<"none">>
    /\ Len(faces) = 3
    /\ faces[1] = <<NatOf(1), NatOf(2), NatOf(3), NatOf(4)>>
    /\ Len(faces[2]) < 3
    /\ faces[3] = <<NatOf(3), NatOf(2), NatOf(1)>>
    /\ triangles = << <<NatOf(1), NatOf(2), NatOf(3)>>, <<NatOf(1), NatOf(3), NatOf(4)>>,
                     <<NatOf(3), NatOf(2), NatOf(1)>> >>

\* the values of the lines of one kind among the first n lines, in file order
ValuesOf(kind, n) ==
    LET hits == SelectSeq(SubSeq(ofile, 1, n), LAMBDA t : LineOf(t).kind = kind)
    IN  [k \in 1..Len(hits) |->
            IF kind = "v" THEN LineOf(hits[k]).xyz ELSE LineOf(hits[k]).val]

\* C9: a successful load of a file with V well-formed vertex lines and F
\* well-formed face lines returns vertices = the dummy entry followed by the V
\* vertices in file order (vertex_count() = V) and faces = the F faces in file
\* order, indices in line order (face_count() = F); lines starting with
\* neither v nor f change nothing.  It holds of the lines read so far at every
\* point of the load.
C9_LoadKeepsFileOrder ==
    lres \in {"reading", "ok"} /\ ofile # NoFile =>
        /\ vertices = << <<F32Zero(0), F32Zero(0), F32Zero(0)>> >> \o ValuesOf("v", lineno)
        /\ faces = ValuesOf("f", lineno)
        /\ vertex_count = Len(ValuesOf("v", lineno))
        /\ face_count = Len(ValuesOf("f", lineno))
        /\ lres = "ok" => lineno = Len(ofile)

C9_Witness ==
    /\ lres = "ok"
    /\ vertex_count = 2
    /\ vertices[2] # vertices[3]
    /\ face_count = 1
    /\ faces[1] = <<NatOf(3), NatOf(2), NatOf(1)>>
    /\ \E n \in 1..Len(ofile) : LineOf(ofile[n]).kind = "other"

----------------------------------------------------------------------------
(* viewer.rs: EguiDebugDraw, the drawing sink *)

MaxSinkVerts == 4  \* most vertex calls made on the sink

\* what the callers pass to the sink
SinkPrims == {DU_DRAW_QUADS, DU_DRAW_LINES, DU_DRAW_POINTS, DU_DRAW_TRIS}
SinkPositions == { <<1, 2, 3>>, <<4, 5, 6>> }
SinkColours == {COL_BOUNDARY}
SinkUVs == { <<2, 4>> }

\* Color32::from_rgba_premultiplied((color.x * 255.0) as u8, ..)
ToColor32(color) == [c \in 1..4 |-> F32AsU8(color[c] * 255, ColDen)]

\* EguiDebugDraw::new()
SinkInit ==
    /\ PolyIdle
    /\ SlopeIdle
    /\ ObjIdle
    /\ dd = [lines |-> <<>>, points |-> <<>>, tris |-> <<>>, current_mode |-> 0,
             texture_enabled |-> FALSE, vertex_count |-> 0]
    /\ dstatus = "ready"
    /\ batch = NoBatch
    /\ nvert = 0

\* EguiDebugDraw::clear
SinkClear ==
    /\ dstatus = "ready"
    /\ dd' = [dd EXCEPT !.lines = <<>>, !.points = <<>>, !.tris = <<>>,
                        !.vertex_count = 0]
    /\ batch' = NoBatch
    /\ UNCHANGED <<dstatus, nvert>>

\* DebugDraw::begin
SinkBegin(prim) ==
    /\ dstatus = "ready"
    /\ dd' = [dd EXCEPT !.current_mode = prim, !.vertex_count = 0]
    /\ batch' = [state |-> "open", prim |-> prim, n |-> 0, tris0 |-> Len(dd.tris)]
    /\ UNCHANGED <<dstatus, nvert>>

\* the triangle being filled, with vertex slot k (1 or 2) and its uv set
SetSlot(tri, k, pos, uv) ==
    IF k = 1 THEN [tri EXCEPT ![2] = pos, ![6] = uv]
    ELSE [tri EXCEPT ![3] = pos, ![7] = uv]

\* the body of vertex_uv while current_mode == DU_DRAW_TRIS
StoreTriVertex(d, pos, col, uv) ==
    IF d.vertex_count % 3 = 0
    THEN [d EXCEPT !.tris = Append(@, <<pos, pos, pos, col, uv, uv, uv>>),
                   !.vertex_count = @ + 1]
    ELSE [d EXCEPT !.tris[Len(d.tris)] = SetSlot(@, d.vertex_count % 3, pos, uv),
                   !.vertex_count = @ + 1]

\* the bookkeeping of a vertex call
CountVertex ==
    /\ nvert' = nvert + 1
    /\ batch' = IF batch.state = "open" THEN [batch EXCEPT !.n = @ + 1]
                ELSE IF batch.state = "ended" THEN [batch EXCEPT !.state = "stale"]
                ELSE batch

\* DebugDraw::vertex_uv
SinkVertexUV(pos, color, uv) ==
    /\ dstatus = "ready"
    /\ nvert < MaxSinkVerts
    /\ CountVertex
    /\ IF dd.current_mode # DU_DRAW_TRIS
       THEN UNCHANGED <<dd, dstatus>>
       ELSE IF dd.vertex_count % 3 # 0 /\ dd.tris = <<>>
       THEN dstatus' = "panic" /\ UNCHANGED dd
       ELSE /\ dd' = StoreTriVertex(dd, pos, ToColor32(color), uv)
            /\ UNCHANGED dstatus

\* DebugDraw::vertex: self.vertex_uv(pos, color, Vec2::new(0.0, 0.0))
SinkVertex(pos, color) == SinkVertexUV(pos, color, <<0, 0>>)

\* DebugDraw::texture
SinkTexture(state) ==
    /\ dstatus = "ready"
    /\ dd' = [dd EXCEPT !.texture_enabled = state]
    /\ UNCHANGED <<dstatus, batch, nvert>>

\* DebugDraw::end: fn end(&mut self) {}
SinkEnd ==
    /\ dstatus = "ready"
    /\ batch.state = "open"
    /\ batch' = [batch EXCEPT !.state = "ended"]
    /\ UNCHANGED <<dd, dstatus, nvert>>

SinkNext ==
    \/ SinkClear /\ UNCHANGED <<pvars, svars, ovars>>
    \/ \E prim \in SinkPrims : SinkBegin(prim) /\ UNCHANGED <<pvars, svars, ovars>>
    \/ \E pos \in SinkPositions, color \in SinkColours :
          SinkVertex(pos, color) /\ UNCHANGED <<pvars, svars, ovars>>
    \/ \E pos \in SinkPositions, color \in SinkColours, uv \in SinkUVs :
          SinkVertexUV(pos, color, uv) /\ UNCHANGED <<pvars, svars, ovars>>
    \/ \E state \in BOOLEAN : SinkTexture(state) /\ UNCHANGED <<pvars, svars, ovars>>
    \/ SinkEnd /\ UNCHANGED <<pvars, svars, ovars>>

SpecSink == SinkInit /\ [][SinkNext]_vars

----------------------------------------------------------------------------
(* Properties of EguiDebugDraw *)

\* C10: after a begin(FILLED_TRIANGLES) ... end() batch in which n vertices
\* were received the sink holds exactly floor(n / 3) triangles from the
\* batch; a trailing partial primitive is dropped.
C10_PartialTriangleDropped ==
    (batch.state = "ended" /\ batch.prim = DU_DRAW_TRIS) =>
        Len(dd.tris) - batch.tris0 = batch.n \div 3

----------------------------------------------------------------------------
(* Call sequence of du_debug_draw_tri_mesh_slope *)

\* The TriangleMesh invariant: normals.len() == tris.len(), divisible by 3,
\* every index in tris >= 0 and < verts.len().
TriangleMeshOk(mesh) ==
    /\ Len(mesh.normals) = Len(mesh.tris)
    /\ Len(mesh.tris) % 3 = 0
    /\ \A k \in 1..Len(mesh.tris) : mesh.tris[k] >= 0 /\ mesh.tris[k] < Len(mesh.verts)

\* N, the number of triangles
TriCount(mesh) == Len(mesh.tris) \div 3

\* Call n is the one the claimed sequence has at place n: texture(true),
\* begin(FILLED_TRIANGLES), the 3N vertex_uv calls, end(), texture(false).
CallInPlace(n) ==
    LET N == TriCount(smesh)
    IN  CASE n = 1 -> scalls[n].op = "texture" /\ scalls[n].state = TRUE
          [] n = 2 -> scalls[n].op = "begin" /\ scalls[n].prim = DU_DRAW_TRIS
          [] n >= 3 /\ n <= 3 * N + 2 ->
                /\ scalls[n].op = "vertex_uv"
                /\ scalls[n].pos = At(smesh.verts, At(smesh.tris, n - 3))
                /\ 3 + 3 * ((n - 3) \div 3) <= Len(scalls)
                /\ scalls[n].color = scalls[3 + 3 * ((n - 3) \div 3)].color
          [] n = 3 * N + 3 -> scalls[n].op = "end"
          [] n = 3 * N + 4 -> scalls[n].op = "texture" /\ scalls[n].state = FALSE
          [] OTHER -> FALSE

\* C11: on a non-empty TriangleMesh of N triangles the calls made so far are
\* always an initial part of texture(true), begin(FILLED_TRIANGLES), 3N
\* vertex_uv calls (triangle order, untransformed positions, one colour per
\* triple), end(), texture(false); the call completes, and has then made all
\* 3N + 4 of them.
C11_SlopeCallSequence ==
    (spc # "idle" /\ ~AnyEmpty(smesh) /\ TriangleMeshOk(smesh)) =>
        /\ spc # "panic"
        /\ \A n \in 1..Len(scalls) : CallInPlace(n)
        /\ spc = "done" => Len(scalls) = 3 * TriCount(smesh) + 4
        /\ spc = "start" => scalls = <<>>

C11_Witness ==
    /\ spc = "done"
    /\ TriangleMeshOk(smesh)
    /\ TriCount(smesh) = 2
    /\ Len(scalls) = 10
    /\ scalls[3].pos # scalls[4].pos
    /\ scalls[3].color # scalls[6].color

----------------------------------------------------------------------------
(* Texture axes of du_debug_draw_tri_mesh_slope *)

\* the axis the selection rule picks for the triangle of vertex call n
AxisOfCall(n) == SelectAxis(NormalOfCall(n))

\* C12 as stated: for the axis selected for a drawn triangle, (1 << axis) & 3
\* is (axis + 1) mod 3 when the axis is 0 or 1, and is not when the axis is 2.
C12_MaskWrongForAxis2 ==
    \A n \in 1..Len(scalls) :
        IsSlopeVertex(n) =>
            IF AxisOfCall(n) = 2
            THEN ShiftMask(AxisOfCall(n)) # (AxisOfCall(n) + 1) % 3
            ELSE ShiftMask(AxisOfCall(n)) = (AxisOfCall(n) + 1) % 3

\* C12 amended: for the axis selected for a drawn triangle, whichever of 0, 1
\* and 2 it is, (1 << axis) & 3 is (axis + 1) mod 3; for axis 2 it is
\* 4 & 3 = 0 = 3 mod 3.
C12_MaskIsSuccMod3 ==
    \A n \in 1..Len(scalls) :
        IsSlopeVertex(n) =>
            /\ AxisOfCall(n) \in 0..2
            /\ ShiftMask(AxisOfCall(n)) = (AxisOfCall(n) + 1) % 3

C12_Witness ==
    /\ spc = "done"
    /\ \E n \in 1..Len(scalls) :
          IsSlopeVertex(n) /\ AxisOfCall(n) = 2 /\ ShiftMask(AxisOfCall(n)) = 0
    /\ \E n \in 1..Len(scalls) :
          IsSlopeVertex(n) /\ AxisOfCall(n) = 1 /\ ShiftMask(AxisOfCall(n)) = 2

\* C13 as stated: the texture coordinate of every emitted vertex p is
\* (p[axis] * scale, p[companion] * scale), axis the selected axis and
\* companion the axis derived from it.
C13_UAlongSelectedAxis ==
    \A n \in 1..Len(scalls) :
        IsSlopeVertex(n) =>
            scalls[n].uv = << At(scalls[n].pos, AxisOfCall(n)) * sscale,
                              At(scalls[n].pos, ShiftMask(AxisOfCall(n))) * sscale >>

\* C13 amended: the texture coordinate of every emitted vertex p is
\* (p[(axis + 1) mod 3] * scale, p[(axis + 2) mod 3] * scale), axis the
\* selected axis: u and v run along the two other axes, never along the
\* selected one.
C13_UVAlongOtherAxes ==
    \A n \in 1..Len(scalls) :
        IsSlopeVertex(n) =>
            scalls[n].uv = << At(scalls[n].pos, (AxisOfCall(n) + 1) % 3) * sscale,
                              At(scalls[n].pos, (AxisOfCall(n) + 2) % 3) * sscale >>

C13_Witness ==
    /\ spc = "done"
    /\ \E n \in 1..Len(scalls) :
          /\ IsSlopeVertex(n) /\ AxisOfCall(n) = 2
          /\ scalls[n].uv = <<At(scalls[n].pos, 0) * sscale, At(scalls[n].pos, 1) * sscale>>
    /\ \E n \in 1..Len(scalls) :
          /\ IsSlopeVertex(n) /\ AxisOfCall(n) = 0
          /\ scalls[n].uv = <<At(scalls[n].pos, 1) * sscale, At(scalls[n].pos, 2) * sscale>>

----------------------------------------------------------------------------
(* Properties of obj_to_input_mesh *)

\* the TriangleMesh invariant on the mesh obj_to_input_mesh returned, with the
\* three normals of each triangle equal
ReturnedMeshOk ==
    /\ Len(imesh.normals) = Len(imesh.tris)
    /\ Len(imesh.tris) % 3 = 0
    /\ \A k \in 1..Len(imesh.tris) :
          imesh.tris[k] >= 0 /\ imesh.tris[k] < Len(imesh.verts)
    /\ \A t \in 0..(Len(imesh.normals) \div 3 - 1) :
          /\ At(imesh.normals, 3 * t) = At(imesh.normals, 3 * t + 1)
          /\ At(imesh.normals, 3 * t) = At(imesh.normals, 3 * t + 2)

\* C14: for the ObjData of every successful load_obj, faces of fewer than 3
\* indices, index 0 and indices past the vertex lines included,
\* obj_to_input_mesh completes and returns a mesh satisfying the TriangleMesh
\* invariant.
C14_ConversionKeepsInvariant ==
    (lres = "ok" /\ imesh # NoMesh) => (imesh.status = "ok" /\ ReturnedMeshOk)

----------------------------------------------------------------------------
(* Properties of the primitive kind codes *)

\* the codes of FILLED_QUADS, LINES and POINTS
NonTriangleKinds == {DU_DRAW_QUADS, DU_DRAW_LINES, DU_DRAW_POINTS}

\* C15: the four primitive kinds have pairwise distinct codes, so a batch the
\* caller began as FILLED_QUADS, LINES or POINTS, once it has received a
\* vertex, has added no triangle to the sink.
C15_KindCodesDistinct ==
    (batch.state \in {"open", "ended"} /\ batch.n > 0) =>
        /\ Cardinality(NonTriangleKinds \cup {DU_DRAW_TRIS}) = 4
        /\ batch.prim \in NonTriangleKinds => Len(dd.tris) = batch.tris0

====
